---- MODULE Spec2Model ----
(***************************************************************************)
(* A model of gof/result.py: the Result base class (role, data slot,      *)
(* state, name, identity, abstract hooks), the PythonResult subclass and  *)
(* the C code PythonResult emits (c_declare, c_extract, c_cleanup,        *)
(* c_sync), executed statement by statement on a reference-counted heap.  *)
(*                                                                         *)
(* Python values are represented as follows.                               *)
(*   data objects : the strings of Objs (immutable) and of ListIds (list  *)
(*                  objects, whose elements are in heap); identity (`is`) *)
(*                  is equality of the string; Python None is None.       *)
(*   roles        : the pair <<owner, index>>; Python None is RoleNone.    *)
(*   str          : the sequence of its characters; Python None is        *)
(*                  NameNone and a non-str, non-None object is NotAStr.    *)
(***************************************************************************)
EXTENDS Integers, Sequences, FiniteSets, TLC

\* ---------------------------------------------------------------- bounds
MaxIndex == 1
MaxOutputs == 1
MaxRef == 2

\* ------------------------------------------------------------ value sets
\* The model holds two nodes; a third is never constructed.
NodeIds == {1, 2}
Ops == {"op1", "op2"}
Indices == 0..MaxIndex

None == "None"
Objs == {"o1", "o2", "o3", "o4"}
\* List objects: l1 is a list holding the list m1, l2 is not allocated until
\* a copy needs a new list.
ListIds == {"l1", "l2", "m1"}
Free == <<"free">>
RoleNone == << >>
NameNone == <<"None">>
NotAStr == <<"int">>

Empty == "Empty"
Allocated == "Allocated"
Computed == "Computed"

Classes == {"absent", "Result", "PythonResult", "FilteredResult"}

RoleArgs == {RoleNone} \cup (Ops \X Indices)
DataArgs == {None} \cup Objs
NameArgs == {NameNone, NotAStr, << >>, <<"x">>}

\* The nodes: cls[n] is the class of node n ("absent" before it is
\* constructed), _role, _data (the one element of the list self._data),
\* state, _name and _hash_id are its slots. hashgen_next is the counter of
\* utils.hashgen, outputs[op] the list op.outputs of each owner. first_role
\* and first_hash record the role a node was first bound to and the hash
\* it was constructed with; last describes the operation that made the
\* latest step. heap[l] is the sequence of elements of list object l (Free
\* while l is not allocated).
VARIABLES cls, _role, _data, state, _name, _hash_id, hashgen_next, outputs,
          first_role, first_hash, last, heap

\* The run of the C code a PythonResult emits for one compiled region.
\* c_env holds the C variables py_<name> ("py") and <name> ("name"), refcnt
\* the reference count of each host object (0: deallocated), code the
\* statements of the running hook still to execute, ran the hooks whose code
\* has been entered, touched whether the region's own code has stored into
\* <name>, ub whether a statement with undefined behaviour has executed,
\* before the binding and the counts when c_extract was entered, and entry
\* the C variables and the counts when the latest hook was entered.
VARIABLES c_env, refcnt, code, ran, touched, ub, before, entry

natVars == <<c_env, refcnt, code, ran, touched, ub, before, entry>>

nodeVars == <<cls, _role, _data, state, _name, _hash_id, hashgen_next,
              first_role, first_hash, heap>>
vars == <<cls, _role, _data, state, _name, _hash_id, hashgen_next, outputs,
          first_role, first_hash, last, heap, c_env, refcnt, code, ran,
          touched, ub, before, entry>>

alive == {n \in NodeIds : cls[n] # "absent"}

\* ------------------------------------------------------------------ role
\* Result.__set_role: the new _role and the outcome of `self.role = role`.
set_role_overwrite(cur, role) ==
    IF role = RoleNone THEN [role |-> cur, res |-> "TypeError", msg |-> "unpack"]
    ELSE [role |-> role, res |-> "return", msg |-> ""]

set_role_no_index_check(cur, role) ==
    IF role = RoleNone THEN [role |-> cur, res |-> "TypeError", msg |-> "unpack"]
    ELSE IF cur # RoleNone THEN
        IF cur[1] # role[1]
        THEN [role |-> cur, res |-> "ValueError", msg |-> "owner"]
        ELSE [role |-> cur, res |-> "return", msg |-> ""]
    ELSE [role |-> role, res |-> "return", msg |-> ""]

set_role(cur, role) ==
    IF role = RoleNone THEN [role |-> cur, res |-> "TypeError", msg |-> "unpack"]
    ELSE IF cur # RoleNone THEN
        IF cur[1] # role[1]
        THEN [role |-> cur, res |-> "ValueError", msg |-> "owner"]
        ELSE IF cur[2] # role[2]
        THEN [role |-> cur, res |-> "ValueError", msg |-> "index"]
        ELSE [role |-> cur, res |-> "return", msg |-> ""]
    ELSE [role |-> role, res |-> "return", msg |-> ""]

get_owner(n) == IF _role[n] = RoleNone THEN None ELSE _role[n][1]

get_index(n) == IF _role[n] = RoleNone THEN None ELSE _role[n][2]

\* ------------------------------------------------------------------ data
\* The filter of each node class. Result.filter raises
\* AbstractFunctionError and PythonResult inherits it; FilteredResult is a
\* subclass overriding filter: it accepts o1 as it is, wraps o2 into o1,
\* rejects o3 and turns o4 into None.
filter_python_identity(k, data) ==
    IF k = "PythonResult" THEN [res |-> "return", val |-> data]
    ELSE IF k # "FilteredResult" THEN [res |-> "AbstractFunctionError", val |-> None]
    ELSE CASE data = "o1" -> [res |-> "return", val |-> "o1"]
           [] data = "o2" -> [res |-> "return", val |-> "o1"]
           [] data = "o3" -> [res |-> "ValidationFailure", val |-> None]
           [] OTHER       -> [res |-> "return", val |-> None]

filter(k, data) ==
    IF k # "FilteredResult" THEN [res |-> "AbstractFunctionError", val |-> None]
    ELSE CASE data = "o1" -> [res |-> "return", val |-> "o1"]
           [] data = "o2" -> [res |-> "return", val |-> "o1"]
           [] data = "o3" -> [res |-> "ValidationFailure", val |-> None]
           [] OTHER       -> [res |-> "return", val |-> None]

\* Result.__set_data: the new slot and state, the outcome, and the number
\* of calls of self.filter it made.
set_data_no_identity_check(k, cur, st, data) ==
    IF data = None
    THEN [data |-> None, state |-> Empty, res |-> "return", ncalls |-> 0]
    ELSE LET f == filter(k, data) IN
         IF f.res = "AbstractFunctionError"
         THEN [data |-> data, state |-> Computed, res |-> "return", ncalls |-> 1]
         ELSE IF f.res # "return"
         THEN [data |-> cur, state |-> st, res |-> f.res, ncalls |-> 1]
         ELSE [data |-> f.val, state |-> Computed, res |-> "return", ncalls |-> 1]

set_data_store_raw(k, cur, st, data) ==
    IF data = cur
    THEN [data |-> cur, state |-> st, res |-> "return", ncalls |-> 0]
    ELSE IF data = None
    THEN [data |-> None, state |-> Empty, res |-> "return", ncalls |-> 0]
    ELSE LET f == filter(k, data) IN
         IF f.res \notin {"AbstractFunctionError", "return"}
         THEN [data |-> cur, state |-> st, res |-> f.res, ncalls |-> 1]
         ELSE [data |-> data, state |-> Computed, res |-> "return", ncalls |-> 1]

set_data_none_allocated(k, cur, st, data) ==
    IF data = cur
    THEN [data |-> cur, state |-> st, res |-> "return", ncalls |-> 0]
    ELSE IF data = None
    THEN [data |-> None, state |-> Allocated, res |-> "return", ncalls |-> 0]
    ELSE LET f == filter(k, data) IN
         IF f.res = "AbstractFunctionError"
         THEN [data |-> data, state |-> Computed, res |-> "return", ncalls |-> 1]
         ELSE IF f.res # "return"
         THEN [data |-> cur, state |-> st, res |-> f.res, ncalls |-> 1]
         ELSE [data |-> f.val, state |-> Computed, res |-> "return", ncalls |-> 1]

set_data_swallow_all(k, cur, st, data) ==
    IF data = cur
    THEN [data |-> cur, state |-> st, res |-> "return", ncalls |-> 0]
    ELSE IF data = None
    THEN [data |-> None, state |-> Empty, res |-> "return", ncalls |-> 0]
    ELSE LET f == filter(k, data) IN
         IF f.res # "return"
         THEN [data |-> data, state |-> Computed, res |-> "return", ncalls |-> 1]
         ELSE [data |-> f.val, state |-> Computed, res |-> "return", ncalls |-> 1]

set_data(k, cur, st, data) ==
    IF data = cur
    THEN [data |-> cur, state |-> st, res |-> "return", ncalls |-> 0]
    ELSE IF data = None
    THEN [data |-> None, state |-> Empty, res |-> "return", ncalls |-> 0]
    ELSE LET f == filter(k, data) IN
         IF f.res = "AbstractFunctionError"
         THEN [data |-> data, state |-> Computed, res |-> "return", ncalls |-> 1]
         ELSE IF f.res # "return"
         THEN [data |-> cur, state |-> st, res |-> f.res, ncalls |-> 1]
         ELSE [data |-> f.val, state |-> Computed, res |-> "return", ncalls |-> 1]

get_data(n) == _data[n]

\* ------------------------------------------------------------- the heap
FreshList == CHOOSE l \in ListIds : heap[l] = Free

\* copy.copy of a datum: a shallow copy. An immutable object is returned
\* itself; a list is copied into a new list object holding the same
\* elements (copy_heap).
copy_copy(x) == IF x \in ListIds THEN FreshList ELSE x

copy_heap(x) ==
    IF x \in ListIds THEN [heap EXCEPT ![FreshList] = heap[x]] ELSE heap

\* lst[0] = x, in place, on heap h
set_item(h, lst, x) == [h EXCEPT ![lst] = <<x>> \o Tail(@)]

RECURSIVE Reach(_, _)
\* the list objects reachable from datum d on heap h
Reach(h, d) ==
    IF d \notin ListIds THEN {}
    ELSE {d} \cup UNION {Reach(h, h[d][i]) : i \in 1..Len(h[d])}

RECURSIVE Deep(_, _)
RECURSIVE DeepSeq(_, _)
\* repr(d): what is read through datum d on heap h, at every depth
Deep(h, d) ==
    IF d \notin ListIds THEN <<d>>
    ELSE <<"[">> \o DeepSeq(h, h[d]) \o <<"]">>

DeepSeq(h, s) ==
    IF s = << >> THEN << >> ELSE Deep(h, Head(s)) \o <<",">> \o DeepSeq(h, Tail(s))

\* ------------------------------------------------------------------ name
Digit == <<"0", "1", "2", "3", "4", "5", "6", "7", "8", "9">>

RECURSIVE IntStr(_)
\* "%i" % i for i >= 0
IntStr(i) ==
    IF i < 10 THEN <<Digit[i + 1]>>
    ELSE IntStr(i \div 10) \o <<Digit[(i % 10) + 1]>>

\* "%s" % owner.__class__
ClassStr(op) == IF op = "op1" THEN <<"A">> ELSE <<"B">>

\* list.index(x): the 0-based position of the first element that is x,
\* or -1 where Python raises ValueError.
list_index(s, x) ==
    IF \E i \in 1..Len(s) : s[i] = x
    THEN (CHOOSE i \in 1..Len(s) : s[i] = x /\ \A j \in 1..(i - 1) : s[j] # x) - 1
    ELSE -1

\* bool(self._name): None and "" are false
name_truthy(nm) == nm # NameNone /\ nm # << >>

\* Result.__get_name
get_name(n) ==
    IF name_truthy(_name[n]) THEN [res |-> "return", val |-> _name[n]]
    ELSE IF _role[n] # RoleNone THEN
        LET i == list_index(outputs[get_owner(n)], n) IN
        IF i < 0 THEN [res |-> "ValueError", val |-> NameNone]
        ELSE [res |-> "return",
              val |-> ClassStr(get_owner(n)) \o <<".">> \o IntStr(i)]
    ELSE [res |-> "return", val |-> NameNone]

\* Result.__set_name
set_name(cur, name) ==
    IF name # NameNone /\ name = NotAStr
    THEN [name |-> cur, res |-> "TypeError"]
    ELSE [name |-> name, res |-> "return"]

\* -------------------------------------------------------------- identity
\* Result.__eq__, __ne__: `self is other`, `self is not other`
eq_by_content(a, b) == _data[a] = _data[b] /\ _role[a] = _role[b]

__eq__(a, b) == a = b

__ne__(a, b) == a # b

__hash__(n) == _hash_id[n]

\* utils.hashgen: a counter, incremented and returned
hashgen == hashgen_next + 1

\* ----------------------------------------------------------------- hooks
Hooks == {"filter", "c_is_simple", "c_literal", "c_declare", "c_extract",
          "c_cleanup", "c_sync", "c_compile_args", "c_headers", "c_libraries",
          "c_support_code", "same_properties", "__copy__"}

\* Result.c_is_simple
c_is_simple(k) == FALSE

\* PythonResult.same_properties
same_properties(k) == FALSE

\* The value hook h returns on a node of class k, where it returns one.
hook_value(k, h) ==
    CASE h = "c_is_simple" -> IF c_is_simple(k) THEN "True" ELSE "False"
      [] h = "same_properties" /\ k = "PythonResult" ->
            IF same_properties(k) THEN "True" ELSE "False"
      [] h = "filter" -> filter(k, "o1").val
      [] OTHER -> None

\* The outcome of calling hook h on a node of class k: "return", or the
\* name of the exception raised. Result.same_properties raises the
\* undefined name AbstractFunction, which is a NameError.
hook_outcome(k, h) ==
    CASE h = "c_is_simple" -> "return"
      [] h = "filter" -> filter(k, "o1").res
      [] h = "same_properties" ->
            IF k = "PythonResult" THEN "return" ELSE "NameError"
      [] h \in {"c_declare", "c_extract", "c_cleanup", "c_sync", "__copy__"} ->
            IF k = "PythonResult" THEN "return" ELSE "AbstractFunctionError"
      [] OTHER -> "AbstractFunctionError"

\* ------------------------------------------------------------ operations
Last(op, n, arg, res, ncalls) ==
    [op |-> op, n |-> n, arg |-> arg, res |-> res, ncalls |-> ncalls]

InitNodes ==
    /\ cls = [n \in NodeIds |-> "absent"]
    /\ _role = [n \in NodeIds |-> RoleNone]
    /\ _data = [n \in NodeIds |-> None]
    /\ state = [n \in NodeIds |-> Empty]
    /\ _name = [n \in NodeIds |-> NameNone]
    /\ _hash_id = [n \in NodeIds |-> 0]
    /\ hashgen_next = 0
    /\ outputs = [op \in Ops |-> << >>]
    /\ first_role = [n \in NodeIds |-> RoleNone]
    /\ first_hash = [n \in NodeIds |-> 0]
    /\ last = Last("start", 0, None, "return", 0)
    /\ heap = [l \in ListIds |->
                 CASE l = "l1" -> <<"m1">> [] l = "m1" -> <<"o1">> [] OTHER -> Free]

\* The slots of a node that Result.__init__(role, name) has filled, for a
\* data slot d and a state st.
NewNode(n, k, role, name, d, st) ==
    /\ cls' = [cls EXCEPT ![n] = k]
    /\ _role' = [_role EXCEPT ![n] = role]
    /\ _data' = [_data EXCEPT ![n] = d]
    /\ state' = [state EXCEPT ![n] = st]
    /\ _name' = [_name EXCEPT ![n] = name]
    /\ _hash_id' = [_hash_id EXCEPT ![n] = hashgen]
    /\ hashgen_next' = hashgen
    /\ first_role' = [first_role EXCEPT ![n] = role]
    /\ first_hash' = [first_hash EXCEPT ![n] = hashgen]

FreeNode == CHOOSE n \in NodeIds : cls[n] = "absent" /\ \A m \in NodeIds : m < n => cls[m] # "absent"

\* Result.__init__, called as k(role, name)
Construct(k, role, name) ==
    /\ UNCHANGED natVars
    /\ \E n \in NodeIds : cls[n] = "absent"
    /\ LET r == IF role = RoleNone
                THEN [role |-> RoleNone, res |-> "return"]
                ELSE set_role(RoleNone, role)
           nm == set_name(NameNone, name)
       IN IF nm.res # "return"
          THEN /\ last' = Last("__init__", 0, None, nm.res, 0)
               /\ UNCHANGED <<nodeVars, outputs>>
          ELSE /\ NewNode(FreeNode, k, r.role, nm.name, None, Empty)
               /\ last' = Last("__init__", FreeNode, None, "return", 0)
               /\ UNCHANGED <<outputs, heap>>

\* self.role = role
SetRole(n, role) ==
    /\ UNCHANGED natVars
    /\ n \in alive
    /\ LET r == set_role(_role[n], role) IN
       /\ _role' = [_role EXCEPT ![n] = r.role]
       /\ first_role' = [first_role EXCEPT
                           ![n] = IF @ = RoleNone THEN r.role ELSE @]
       /\ last' = Last("set_role", n, role, r.res, 0)
    /\ UNCHANGED <<cls, _data, state, _name, _hash_id, hashgen_next, outputs,
                   first_hash, heap>>

\* self.data = data
SetData(n, data) ==
    /\ UNCHANGED natVars
    /\ n \in alive
    /\ LET r == set_data(cls[n], _data[n], state[n], data) IN
       /\ _data' = [_data EXCEPT ![n] = r.data]
       /\ state' = [state EXCEPT ![n] = r.state]
       /\ last' = Last("set_data", n, data, r.res, r.ncalls)
    /\ UNCHANGED <<cls, _role, _name, _hash_id, hashgen_next, outputs,
                   first_role, first_hash, heap>>

\* self.name = name
SetName(n, name) ==
    /\ UNCHANGED natVars
    /\ n \in alive
    /\ LET r == set_name(_name[n], name) IN
       /\ _name' = [_name EXCEPT ![n] = r.name]
       /\ last' = Last("set_name", n, None, r.res, 0)
    /\ UNCHANGED <<cls, _role, _data, state, _hash_id, hashgen_next, outputs,
                   first_role, first_hash, heap>>

\* reading self.name
GetName(n) ==
    /\ UNCHANGED natVars
    /\ n \in alive
    /\ last' = Last("get_name", n, None, get_name(n).res, 0)
    /\ UNCHANGED <<nodeVars, outputs>>

\* a call of one of the hooks other than __copy__
CallHook(n, h) ==
    /\ UNCHANGED natVars
    /\ n \in alive
    /\ h \in Hooks \ {"__copy__"}
    /\ last' = Last(h, n, hook_value(cls[n], h), hook_outcome(cls[n], h), 0)
    /\ UNCHANGED <<nodeVars, outputs>>

\* copy.copy(node): Result.__copy__ raises, PythonResult.__copy__ builds
\* PythonResult(None, self.name) and assigns it copy.copy(self.data).
Copy(n) ==
    /\ UNCHANGED natVars
    /\ n \in alive
    /\ IF hook_outcome(cls[n], "__copy__") # "return"
       THEN /\ last' = Last("__copy__", n, None, hook_outcome(cls[n], "__copy__"), 0)
            /\ UNCHANGED <<nodeVars, outputs>>
       ELSE IF get_name(n).res # "return"
       THEN /\ last' = Last("__copy__", n, None, get_name(n).res, 0)
            /\ UNCHANGED <<nodeVars, outputs>>
       ELSE /\ \E m \in NodeIds : cls[m] = "absent"
            /\ _data[n] \in ListIds => \E l \in ListIds : heap[l] = Free
            /\ LET nm == set_name(NameNone, get_name(n).val)
                   d == set_data("PythonResult", None, Empty, copy_copy(_data[n]))
               IN /\ NewNode(FreeNode, "PythonResult", RoleNone, nm.name,
                             d.data, d.state)
                  /\ last' = Last("__copy__", n, FreeNode, "return", d.ncalls)
            /\ heap' = copy_heap(_data[n])
            /\ UNCHANGED outputs

\* The executor marks the memory of a node as allocated: a direct write of
\* the public slot `state`.
ExecAllocate(n) ==
    /\ UNCHANGED natVars
    /\ n \in alive
    /\ state' = [state EXCEPT ![n] = Allocated]
    /\ last' = Last("allocate", n, None, "return", 0)
    /\ UNCHANGED <<cls, _role, _data, _name, _hash_id, hashgen_next, outputs,
                   first_role, first_hash, heap>>

\* A holder of node n's datum changes, in place, a list reachable from it:
\* lst[0] = x
Mutate(n, lst, x) ==
    /\ UNCHANGED natVars
    /\ n \in alive
    /\ lst \in Reach(heap, _data[n])
    /\ heap' = set_item(heap, lst, x)
    /\ last' = Last("mutate", n, lst, "return", 0)
    /\ UNCHANGED <<cls, _role, _data, state, _name, _hash_id, hashgen_next,
                   outputs, first_role, first_hash>>

OutputLists == UNION {[1..k -> alive] : k \in 0..MaxOutputs}

\* The owner (re)builds its list of outputs: op.outputs = s
OpSetOutputs(op, s) ==
    /\ UNCHANGED natVars
    /\ s \in OutputLists
    /\ outputs' = [outputs EXCEPT ![op] = s]
    /\ last' = Last("outputs", 0, None, "return", 0)
    /\ UNCHANGED nodeVars

\* ------------------------------------------------------- the emitted C
PyObjs == {"a", "b"}
NULL == "NULL"
WILD == "WILD"
Ptrs == PyObjs \cup {NULL, WILD}

Stmt(op, dst, src) == [op |-> op, dst |-> dst, src |-> src]

\* PythonResult.c_declare: PyObject* <name>;
c_declare == <<Stmt("declare", "name", "")>>

c_extract_borrow == <<Stmt("assign", "name", "py")>>

\* PythonResult.c_extract: Py_XINCREF(py_<name>); <name> = py_<name>;
c_extract == <<Stmt("XINCREF", "py", ""), Stmt("assign", "name", "py")>>

c_cleanup_leak == << >>

\* PythonResult.c_cleanup: Py_XDECREF(<name>);
c_cleanup == <<Stmt("XDECREF", "name", "")>>

c_sync_no_decref ==
    <<Stmt("assign", "py", "name"), Stmt("XINCREF", "py", "")>>

c_sync_no_incref ==
    <<Stmt("XDECREF", "py", ""), Stmt("assign", "py", "name")>>

\* PythonResult.c_sync:
\* Py_XDECREF(py_<name>); py_<name> = <name>; Py_XINCREF(py_<name>);
c_sync ==
    <<Stmt("XDECREF", "py", ""), Stmt("assign", "py", "name"),
      Stmt("XINCREF", "py", "")>>

Emitted(h) ==
    CASE h = "c_declare" -> c_declare
      [] h = "c_extract" -> c_extract
      [] h = "c_cleanup" -> c_cleanup
      [] h = "c_sync" -> c_sync

InitNative ==
    /\ c_env \in [{"py", "name"} -> {NULL}]
    /\ refcnt = [o \in PyObjs |-> 1]
    /\ code = << >>
    /\ ran = << >>
    /\ touched = FALSE
    /\ ub = FALSE
    /\ before = [py |-> NULL, refcnt |-> refcnt]
    /\ entry = [py |-> NULL, name |-> NULL, refcnt |-> refcnt]

\* A statement on a deallocated object or through a wild pointer: any
\* counts may result.
Undefined ==
    /\ ub' = TRUE
    /\ refcnt' \in [PyObjs -> 0..(MaxRef + 1)]

\* Py_XINCREF(p)
XINCREF(p) ==
    IF p = NULL THEN UNCHANGED <<refcnt, ub>>
    ELSE IF p = WILD \/ refcnt[p] = 0 THEN Undefined
    ELSE refcnt' = [refcnt EXCEPT ![p] = @ + 1] /\ UNCHANGED ub

\* Py_XDECREF(p); the object is deallocated when its count reaches 0
XDECREF(p) ==
    IF p = NULL THEN UNCHANGED <<refcnt, ub>>
    ELSE IF p = WILD \/ refcnt[p] = 0 THEN Undefined
    ELSE refcnt' = [refcnt EXCEPT ![p] = @ - 1] /\ UNCHANGED ub

\* The compiler enters the code of hook h: c_declare, then c_extract, then
\* c_sync and c_cleanup, each at most once and c_cleanup last.
RunHook(h) ==
    /\ UNCHANGED <<nodeVars, outputs, last>>
    /\ code = << >>
    /\ CASE h = "c_declare" -> ran = << >>
         [] h = "c_extract" -> ran = <<"c_declare">>
         [] h = "c_sync" -> ran = <<"c_declare", "c_extract">>
         [] h = "c_cleanup" ->
               Len(ran) >= 2 /\ ran[Len(ran)] \in {"c_extract", "c_sync"}
    /\ code' = Emitted(h)
    /\ ran' = Append(ran, h)
    /\ before' = IF h = "c_extract"
                 THEN [py |-> c_env["py"], refcnt |-> refcnt]
                 ELSE before
    /\ entry' = [py |-> c_env["py"], name |-> c_env["name"], refcnt |-> refcnt]
    /\ UNCHANGED <<c_env, refcnt, touched, ub>>

\* One statement of the emitted code. An uninitialised variable holds any
\* pointer.
ExecStmt ==
    /\ UNCHANGED <<nodeVars, outputs, last>>
    /\ code # << >>
    /\ code' = Tail(code)
    /\ LET s == Head(code) IN
       IF s.op = "declare"
       THEN /\ \E g \in Ptrs : c_env' = [c_env EXCEPT ![s.dst] = g]
            /\ UNCHANGED <<refcnt, ub>>
       ELSE IF s.op = "assign"
       THEN /\ c_env' = [c_env EXCEPT ![s.dst] = c_env[s.src]]
            /\ UNCHANGED <<refcnt, ub>>
       ELSE IF s.op = "XINCREF"
       THEN XINCREF(c_env[s.dst]) /\ UNCHANGED c_env
       ELSE XDECREF(c_env[s.dst]) /\ UNCHANGED c_env
    /\ UNCHANGED <<ran, touched, before, entry>>

\* The region's own code, between c_extract and c_sync or c_cleanup, stores
\* another pointer into <name>.
UseHandle(w) ==
    /\ UNCHANGED <<nodeVars, outputs, last>>
    /\ code = << >>
    /\ ran = <<"c_declare", "c_extract">>
    /\ ~touched
    /\ c_env' = [c_env EXCEPT !["name"] = w]
    /\ touched' = TRUE
    /\ UNCHANGED <<refcnt, code, ran, ub, before, entry>>

\* One step of the program, with the classes, arguments and owners drawn
\* from the given sets.
Step(Ks, Rs, Ds, Ns, Hs, Os) ==
    \/ \E k \in Ks, role \in Rs, name \in Ns : Construct(k, role, name)
    \/ \E n \in NodeIds, role \in Rs : SetRole(n, role)
    \/ \E n \in NodeIds, data \in Ds : SetData(n, data)
    \/ \E n \in NodeIds, name \in Ns : SetName(n, name)
    \/ \E n \in NodeIds : GetName(n)
    \/ \E n \in NodeIds, h \in Hs : CallHook(n, h)
    \/ \E n \in NodeIds : Copy(n)
    \/ \E n \in NodeIds : ExecAllocate(n)
    \/ \E op \in Os, s \in OutputLists : OpSetOutputs(op, s)

\* One step of the nodes' own operations: Step without the executor's write.
OwnStep(Ks, Rs, Ds, Ns, Hs, Os) ==
    \/ \E k \in Ks, role \in Rs, name \in Ns : Construct(k, role, name)
    \/ \E n \in NodeIds, role \in Rs : SetRole(n, role)
    \/ \E n \in NodeIds, data \in Ds : SetData(n, data)
    \/ \E n \in NodeIds, name \in Ns : SetName(n, name)
    \/ \E n \in NodeIds : GetName(n)
    \/ \E n \in NodeIds, h \in Hs : CallHook(n, h)
    \/ \E n \in NodeIds : Copy(n)
    \/ \E op \in Os, s \in OutputLists : OpSetOutputs(op, s)

\* Roles in full; one data object, opaque nodes, names cleared or derived
\* (a copy stores the name it read from the original).
Next ==
    Step({"PythonResult"}, RoleArgs, {None, "o1"}, {NameNone},
         {"c_is_simple"}, {"op1"})

Init == InitNodes /\ InitNative

Spec == Init /\ [][Next]_vars

\* Data in full: every class, every data object, the executor's write.
NextData ==
    Step({"Result", "PythonResult", "FilteredResult"}, {RoleNone, <<"op1", 0>>},
         DataArgs, {NameNone}, {"filter"}, {"op1"})

SpecData == Init /\ [][NextData]_vars

\* Names in full: every name argument, every role, the owner's lists.
NextName ==
    Step({"PythonResult"}, RoleArgs, {None}, NameArgs, {"c_is_simple"}, {"op1"})

SpecName == Init /\ [][NextName]_vars

\* Hooks in full, on base nodes and on opaque nodes.
NextHooks ==
    Step({"Result", "PythonResult"}, {RoleNone, <<"op1", 0>>}, {None, "o1"},
         {NameNone, <<"x">>}, Hooks, {"op1"})

SpecHooks == Init /\ [][NextHooks]_vars

\* The nodes' own operations, data in full: no write of `state` from
\* outside.
NextOwn ==
    OwnStep({"Result", "PythonResult", "FilteredResult"}, {RoleNone, <<"op1", 0>>},
            DataArgs, {NameNone}, {"filter"}, {"op1"})

SpecOwn == Init /\ [][NextOwn]_vars

\* Copies of nodes holding a list, and in-place changes of the lists.
NextCopy ==
    \/ Step({"Result", "PythonResult"}, {RoleNone, <<"op1", 0>>},
            {None, "l1"}, {NameNone}, {"c_is_simple"}, {"op1"})
    \/ \E n \in NodeIds, lst \in ListIds, x \in {"o1", "o2"} : Mutate(n, lst, x)

SpecCopy == Init /\ [][NextCopy]_vars

\* The emitted code of one region, run on every binding and every count.
InitC ==
    /\ InitNodes
    /\ \E v \in PyObjs \cup {NULL} : c_env = [x \in {"py", "name"} |->
                                              IF x = "py" THEN v ELSE WILD]
    /\ refcnt \in [PyObjs -> 1..MaxRef]
    /\ code = << >>
    /\ ran = << >>
    /\ touched = FALSE
    /\ ub = FALSE
    /\ before = [py |-> c_env["py"], refcnt |-> refcnt]
    /\ entry = [py |-> c_env["py"], name |-> c_env["name"], refcnt |-> refcnt]

NextC ==
    \/ \E h \in {"c_declare", "c_extract", "c_sync", "c_cleanup"} : RunHook(h)
    \/ ExecStmt
    \/ \E w \in PyObjs \cup {NULL} : UseHandle(w)

SpecC == InitC /\ [][NextC]_vars


\* ================================================================ claims

\* C1: once a node's role is bound to (owner, index), at construction or by
\* the first role assignment, the role read back is that pair in every later
\* state: it never changes to another pair and never returns to None.
C1_RoleImmutable ==
    \A n \in NodeIds : first_role[n] # RoleNone => _role[n] = first_role[n]

\* C1 witness: a bound node has just refused another role.
C1_Witness ==
    /\ last.op = "set_role"
    /\ last.res = "ValueError"
    /\ _role[last.n] # RoleNone
    /\ _role[last.n] = first_role[last.n]
    /\ last.arg # _role[last.n]

\* C2: assigning data = None always leaves state Empty and the datum None,
\* whatever the prior state and the prior datum were.
C2_NoneAlwaysEmpties ==
    (last.op = "set_data" /\ last.arg = None)
        => (last.res = "return" /\ state[last.n] = Empty
            /\ get_data(last.n) = None)

\* What an accepted assignment of x must store: filter(x), or x itself when
\* the class has no filter.
Filtered(k, x) ==
    IF filter(k, x).res = "AbstractFunctionError" THEN x ELSE filter(k, x).val

Accepts(k, x) == filter(k, x).res \in {"return", "AbstractFunctionError"}

\* C3 as claimed: assigning any non-None x the filter accepts leaves state
\* Computed and the datum filter(x), from every prior state and datum.
C3_AcceptedAlwaysComputed ==
    (last.op = "set_data" /\ last.arg # None /\ Accepts(cls[last.n], last.arg))
        => (state[last.n] = Computed
            /\ get_data(last.n) = Filtered(cls[last.n], last.arg))

\* C3 as amended: assigning a non-None x that the filter accepts and that
\* is not the object currently held leaves state Computed and the datum
\* filter(x) (x itself when the class has no filter).
C3_AcceptedNewComputed ==
    [][\A n \in NodeIds :
        (/\ last'.op = "set_data" /\ last'.n = n
         /\ last'.arg # None /\ last'.arg # _data[n]
         /\ Accepts(cls[n], last'.arg))
        => (/\ last'.res = "return"
            /\ state'[n] = Computed
            /\ _data'[n] = Filtered(cls[n], last'.arg))]_vars

\* C3 witness: a filtering node was assigned o2 and holds the wrapped o1.
C3_Witness ==
    /\ last.op = "set_data"
    /\ last.arg = "o2"
    /\ cls[last.n] = "FilteredResult"
    /\ last.ncalls = 1
    /\ _data[last.n] = "o1"
    /\ state[last.n] = Computed

\* C4: re-assigning the object currently held does not call filter and
\* leaves state, datum, role and name as they were, in every state.
C4_SameObjectNoOp ==
    [][\A n \in NodeIds :
        (/\ last'.op = "set_data" /\ last'.n = n
         /\ last'.arg # None /\ last'.arg = _data[n])
        => (/\ last'.res = "return"
            /\ last'.ncalls = 0
            /\ state'[n] = state[n]
            /\ _data'[n] = _data[n]
            /\ _role'[n] = _role[n]
            /\ _name'[n] = _name[n])]_vars

\* C4 witness: the held object was re-assigned to a node in state Allocated.
C4_Witness ==
    /\ last.op = "set_data"
    /\ last.arg # None
    /\ last.arg = _data[last.n]
    /\ last.ncalls = 0
    /\ state[last.n] = Allocated

\* The hooks in ran have run to their end and <name> was left alone.
Ran(hooks) == code = << >> /\ ran = hooks /\ ~touched

C6_CleanupReleasesExtract ==
    /\ Ran(<<"c_declare", "c_extract", "c_cleanup">>)
          => (~ub /\ refcnt = before.refcnt)
    /\ (~touched /\ Len(ran) = 3 /\ ran[3] = "c_cleanup")
          => c_env["py"] = before.py

\* C6 witness: extract and cleanup have run on an object.
C6_Witness ==
    /\ Ran(<<"c_declare", "c_extract", "c_cleanup">>)
    /\ before.py \in PyObjs
    /\ refcnt[before.py] = before.refcnt[before.py]

\* C7: on a node bound to (owner, index), assigning the same pair returns,
\* assigning another owner or another index raises ValueError, and in each
\* case role, datum, state and name are as before.
C7_RebindOutcome ==
    [][\A n \in NodeIds :
        (/\ last'.op = "set_role" /\ last'.n = n
         /\ _role[n] # RoleNone /\ last'.arg # RoleNone)
        => (/\ last'.res = IF last'.arg = _role[n] THEN "return" ELSE "ValueError"
            /\ _role'[n] = _role[n]
            /\ _data'[n] = _data[n]
            /\ state'[n] = state[n]
            /\ _name'[n] = _name[n])]_vars

\* C7 witness: the same owner with another index was refused.
C7_Witness ==
    /\ last.op = "set_role"
    /\ last.res = "ValueError"
    /\ _role[last.n] # RoleNone
    /\ last.arg[1] = _role[last.n][1]
    /\ last.arg[2] # _role[last.n][2]

\* C8: on a base node every hook raises AbstractFunctionError, c_is_simple
\* returns False, and no hook changes role, datum, state or name.
C8_BaseHooksUnsupported ==
    [][\A n \in NodeIds :
        (last'.op \in Hooks /\ last'.n = n /\ cls[n] = "Result")
        => (/\ last'.res = IF last'.op = "c_is_simple"
                           THEN "return" ELSE "AbstractFunctionError"
            /\ ~c_is_simple(cls[n])
            /\ _role'[n] = _role[n]
            /\ _data'[n] = _data[n]
            /\ state'[n] = state[n]
            /\ _name'[n] = _name[n])]_vars

\* C9: a == b holds exactly when a and b are the same node, a != b is its
\* negation, and hash(a) is the value given at construction.
C9_IdentityOnly ==
    \A a \in alive : \A b \in alive :
        /\ __eq__(a, b) <=> (a = b)
        /\ __ne__(a, b) <=> ~__eq__(a, b)
        /\ __hash__(a) = first_hash[a]

\* C9 witness: two nodes hold the same datum and the same role after a data
\* assignment.
C9_Witness ==
    /\ last.op = "set_data"
    /\ alive = {1, 2}
    /\ _data[1] = _data[2] /\ _data[1] # None
    /\ _role[1] = _role[2] /\ _role[1] # RoleNone

Anonymous == <<"a", "n", "o", "n", "y", "m", "o", "u", "s">>

\* C10: the name read is the explicit name if one is set, else
\* "<owner-type>.<index>" from the bound role, else "anonymous", and the
\* read succeeds whenever the role is bound.
C10_NameRead ==
    \A n \in alive :
        /\ get_name(n).res = "return"
        /\ get_name(n).val =
              IF _name[n] # NameNone THEN _name[n]
              ELSE IF _role[n] # RoleNone
              THEN ClassStr(_role[n][1]) \o <<".">> \o IntStr(_role[n][2])
              ELSE Anonymous

\* C11: the copy of a PythonResult is a new node with role None whose data
\* are its own: after the copy, no in-place change of a list reachable from
\* the copy's datum, at any depth, changes what is read through the
\* original's datum, and the reverse; a data assignment to one node leaves
\* every other node's datum and state alone; the copy of a node of a class
\* without __copy__ raises AbstractFunctionError.
C11_CloneIndependent ==
    [][\A n \in NodeIds :
        /\ (last'.op = "__copy__" /\ last'.n = n /\ cls[n] = "PythonResult")
           => IF last'.res # "return" THEN FALSE
              ELSE LET c == last'.arg
                   IN /\ c \notin alive
                      /\ cls'[c] = "PythonResult"
                      /\ _role'[c] = RoleNone
                      /\ \A lst \in Reach(heap', _data'[c]) : \A x \in Objs :
                            Deep(set_item(heap', lst, x), _data'[n])
                                = Deep(heap', _data'[n])
                      /\ \A lst \in Reach(heap', _data'[n]) : \A x \in Objs :
                            Deep(set_item(heap', lst, x), _data'[c])
                                = Deep(heap', _data'[c])
        /\ (last'.op = "__copy__" /\ last'.n = n /\ cls[n] # "PythonResult")
           => last'.res = "AbstractFunctionError"
        /\ (last'.op = "set_data" /\ last'.n = n)
           => \A m \in NodeIds \ {n} :
                 _data'[m] = _data[m] /\ state'[m] = state[m]]_vars

\* C12 as claimed: on a PythonResult filter(x) returns x and raises
\* nothing, and same_properties returns False.
C12_OpaqueFilterIdentity ==
    /\ (last.op = "filter" /\ cls[last.n] = "PythonResult")
       => (/\ last.res = "return" /\ last.arg = "o1"
           /\ \A x \in Objs :
                 filter(cls[last.n], x) = [res |-> "return", val |-> x])
    /\ (last.op = "same_properties" /\ cls[last.n] = "PythonResult")
       => (last.res = "return" /\ last.arg = "False")

\* C12: PythonResult has no filter of its own: filter(x) raises
\* AbstractFunctionError for every x, a data assignment that calls it stores
\* x itself and sets Computed, and same_properties returns False.
C12_OpaqueFilterUnsupported ==
    /\ (last.op = "filter" /\ cls[last.n] = "PythonResult")
       => (/\ last.res = "AbstractFunctionError"
           /\ \A x \in Objs :
                 filter(cls[last.n], x).res = "AbstractFunctionError")
    /\ (last.op = "set_data" /\ cls[last.n] = "PythonResult" /\ last.ncalls = 1)
       => (/\ last.res = "return"
           /\ _data[last.n] = last.arg
           /\ state[last.n] = Computed)
    /\ (last.op = "same_properties" /\ cls[last.n] = "PythonResult")
       => (/\ last.res = "return"
           /\ last.arg = "False"
           /\ ~same_properties(cls[last.n]))

\* C12 witness: filter is called on a PythonResult holding a datum that a
\* data assignment stored.
C12_Witness ==
    /\ last.op = "filter"
    /\ cls[last.n] = "PythonResult"
    /\ _data[last.n] = "o1"
    /\ state[last.n] = Computed

SyncDone == Len(ran) = 3 /\ ran[3] = "c_sync" /\ code = << >>

\* C13: one run of c_sync entered with py_<name> = v and <name> = w leaves
\* py_<name> = w and <name> = w, the count of v one lower and the count of
\* w one higher (each unchanged when v and w are the same object), no
\* other count changed, and executes nothing undefined; v and w may be NULL.
C13_SyncEffect ==
    SyncDone
    => (/\ ~ub
        /\ c_env["py"] = entry.name
        /\ c_env["name"] = entry.name
        /\ \A o \in PyObjs :
              refcnt[o] = entry.refcnt[o]
                          + (IF o = entry.name THEN 1 ELSE 0)
                          - (IF o = entry.py THEN 1 ELSE 0))

\* C13 witness: c_sync has run from a binding and a handle that were two
\* different objects.
C13_Witness ==
    /\ SyncDone
    /\ entry.py \in PyObjs
    /\ entry.name \in PyObjs
    /\ entry.py # entry.name

\* c_extract has completed and <name> still is the pointer it extracted
HandleExtracted ==
    /\ \/ Len(ran) >= 3
       \/ Len(ran) = 2 /\ code = << >>
    /\ c_env["name"] = before.py

\* C17: after c_extract, while <name> still is the extracted pointer, at
\* every statement of a following c_sync or c_cleanup an object that
\* py_<name> or <name> points to has a count above zero, and nothing
\* undefined is executed.
C17_NoPrematureRelease ==
    HandleExtracted
    => (/\ ~ub
        /\ \A o \in PyObjs :
              (c_env["py"] = o \/ c_env["name"] = o) => refcnt[o] > 0)

\* C17 witness: c_sync has executed its Py_XDECREF on an object that had a
\* single reference before c_extract, and has two statements left.
C17_Witness ==
    /\ HandleExtracted
    /\ Len(ran) = 3 /\ ran[3] = "c_sync" /\ Len(code) = 2
    /\ before.py \in PyObjs
    /\ before.refcnt[before.py] = 1
    /\ refcnt[before.py] = 1

\* C14: through the node's own operations (construction, role, data and
\* name assignments, name reads, hooks, copies) the state of a node is
\* Empty or Computed, never Allocated.
C14_OwnNeverAllocated ==
    \A n \in NodeIds : state[n] \in {Empty, Computed}

\* C14 witness: a copy of a node in state Computed has been made after data
\* assignments.
C14_Witness ==
    /\ last.op = "__copy__"
    /\ last.res = "return"
    /\ state[last.n] = Computed
    /\ state[last.arg] = Computed

C16_RejectionLeavesNode ==
    [][\A n \in NodeIds :
        (last'.op = "set_data" /\ last'.n = n /\ last'.ncalls = 1)
        => LET f == filter(cls[n], last'.arg) IN
           IF f.res \notin {"return", "AbstractFunctionError"}
           THEN /\ last'.res = f.res
                /\ _data'[n] = _data[n]
                /\ state'[n] = state[n]
                /\ _role'[n] = _role[n]
                /\ _name'[n] = _name[n]
           ELSE last'.res = "return"]_vars

\* C16 witness: the filter has rejected a value assigned to a node that
\* holds a datum in state Allocated.
C16_Witness ==
    /\ last.op = "set_data"
    /\ last.res = "ValidationFailure"
    /\ _data[last.n] = "o1"
    /\ state[last.n] = Allocated

\* C18: a derived name is never stored: the stored name of a node is None
\* or a name that was explicitly given, and the copy of a node without an
\* explicit name has no stored name, whatever the node's role.
C18_DerivedNameNotStored ==
    /\ \A n \in alive : _name[n] \in NameArgs \ {NotAStr}
    /\ (last.op = "__copy__" /\ last.res = "return" /\ _name[last.n] = NameNone)
       => _name[last.arg] = NameNone

====
